---- MODULE Spec2Model ----
(***************************************************************************)
(* plot_top_words of the topic-modeling notebook: the optional row         *)
(* normalisation of model.components_, and for every topic the ranking of  *)
(* the columns by argsort, the reversed slice that keeps the top           *)
(* n_top_words of them, the lookup of their names in feature_names and the *)
(* bar plot drawn on that topic's axes.                                    *)
(***************************************************************************)
EXTENDS Integers, Sequences, FiniteSets, TLC

(***************************************************************************)
(* Bounds of the model.                                                    *)
(***************************************************************************)
\* topics (rows of components_)
MaxTopics == 2
\* terms (columns of components_)
MaxTerms == 3
\* entries of components_ are the integers -NegWeight .. MaxWeight
MaxWeight == 2
NegWeight == 1
\* binary floating point with Precision significant bits (float64 has 53)
Precision == 7
\* the smallest normal number is 2^-EMin (float64: 2^-1022)
EMin == 3

(***************************************************************************)
(* Floating point.  A finite float is the integer value * 2^Scale; all of  *)
(* them are multiples of the subnormal spacing 2^-Scale.  inf, -inf and    *)
(* nan are integers beyond every finite value, placed where numpy's sort   *)
(* places them: -inf below and inf above every number, nan last.           *)
(***************************************************************************)
Scale == EMin + Precision - 1
Unit == 2 ^ Scale
PosInf == 2 ^ 30
NegInf == 0 - PosInf
NaN == PosInf + 1

IsNaN(x) == x = NaN
IsFinite(x) == x > NegInf /\ x < PosInf
Abs(x) == IF x < 0 THEN 0 - x ELSE x
Sign(x) == IF x < 0 THEN 0 - 1 ELSE 1

RECURSIVE Log2Floor(_)
Log2Floor(q) == IF q < 2 THEN 0 ELSE 1 + Log2Floor(q \div 2)

\* the spacing of the floats around a value whose integer part (in units of
\* 2^-Scale) is q
Spacing(q) ==
    LET k == Log2Floor(q)
    IN  IF q >= 1 /\ k >= Precision - 1 THEN 2 ^ (k - Precision + 1) ELSE 1

\* the float nearest to n/d (n >= 0, d > 0, in units of 2^-Scale), ties to
\* the even significand
RoundRat(n, d) ==
    LET Q == Spacing(n \div d)
        m == n \div (d * Q)
        rem == n - m * d * Q
    IN  IF 2 * rem > d * Q THEN (m + 1) * Q
        ELSE IF 2 * rem = d * Q THEN (m + (m % 2)) * Q
        ELSE m * Q

\* a + b
FAdd(a, b) ==
    IF IsNaN(a) \/ IsNaN(b) THEN NaN
    ELSE IF ~IsFinite(a) /\ ~IsFinite(b) THEN (IF a = b THEN a ELSE NaN)
    ELSE IF ~IsFinite(a) THEN a
    ELSE IF ~IsFinite(b) THEN b
    ELSE Sign(a + b) * RoundRat(Abs(a + b), 1)

\* a / b: a division by zero is no error, it gives inf, -inf or nan
FDiv(a, b) ==
    IF IsNaN(a) \/ IsNaN(b) THEN NaN
    ELSE IF ~IsFinite(a) /\ ~IsFinite(b) THEN NaN
    ELSE IF ~IsFinite(a) THEN (IF b < 0 THEN 0 - a ELSE a)
    ELSE IF ~IsFinite(b) THEN 0
    ELSE IF b = 0 THEN (IF a = 0 THEN NaN ELSE IF a > 0 THEN PosInf ELSE NegInf)
    ELSE Sign(a) * Sign(b) * RoundRat(Abs(a) * Unit, Abs(b))

\* topic.sum(): the entries added from left to right
RECURSIVE SumUpTo(_, _)
SumUpTo(row, n) ==
    IF n = 0 THEN 0 ELSE IF n = 1 THEN row[1] ELSE FAdd(SumUpTo(row, n - 1), row[n])

RowSum(row) == SumUpTo(row, Len(row))

\* a slip: components.sum(axis=1)[0], every row divided by the sum of the
\* first
RowSumsOfFirstRow(m) == [r \in 1..Len(m) |-> RowSum(m[1])]

\* components.sum(axis=1)
RowSums(m) == [r \in 1..Len(m) |-> RowSum(m[r])]

\* a slip: components / components.sum(), every row divided by the sum of the
\* whole matrix
NormalizeByTotal(m) ==
    LET total == SumUpTo(RowSums(m), Len(m))
    IN  [r \in 1..Len(m) |-> [j \in 1..Len(m[r]) |-> FDiv(m[r][j], total)]]

\* a slip: components / np.abs(components.sum(axis=1))[:, np.newaxis], the
\* sign of the sum left out of the division
NormalizeRowsByMagnitude(m) ==
    LET s == RowSums(m)
    IN  [r \in 1..Len(m) |-> [j \in 1..Len(m[r]) |-> FDiv(m[r][j], Abs(s[r]))]]

\* components / components.sum(axis=1)[:, np.newaxis]
NormalizeRows(m) ==
    LET s == RowSums(m)
    IN  [r \in 1..Len(m) |-> [j \in 1..Len(m[r]) |-> FDiv(m[r][j], s[r])]]


(***************************************************************************)
(* The ranking of one topic.  Columns are numbered from 1 here (column j   *)
(* is Python's index j - 1).                                               *)
(***************************************************************************)
\* every order of the columns 1..n
Orders(n) ==
    {p : p \in {q \in [1..n -> 1..n] : \A i, j \in 1..n : i # j => q[i] # q[j]}}

\* OrdersUpTo(n)[m] = Orders(m), computed once
RECURSIVE OrdersUpTo(_)
OrdersUpTo(n) == IF n = 0 THEN <<>> ELSE Append(OrdersUpTo(n - 1), Orders(n))

OrderTable == OrdersUpTo(MaxTerms)

OrdersOf(n) == IF n >= 1 /\ n <= MaxTerms THEN OrderTable[n] ELSE Orders(n)

\* a slip: the columns ranked in descending order, (-topic).argsort()
ArgsortDescending(topic) ==
    {p \in OrdersOf(Len(topic)) :
        \A i \in 1..(Len(topic) - 1) : topic[p[i]] >= topic[p[i + 1]]}

\* topic.argsort(): the columns in ascending order of their value.  The
\* default kind is quicksort, which is not stable: columns of equal value
\* come out in whatever order the build's sort leaves them.
ArgsortOutcomes(topic) ==
    {p \in OrdersOf(Len(topic)) :
        \A i \in 1..(Len(topic) - 1) : topic[p[i]] <= topic[p[i + 1]]}

\* a slip: seq[:stop + 1:-1], as in argsort()[: -n_top_words : -1]
SliceReversedOneShort(seq, stop) ==
    LET len == Len(seq)
        lower == IF stop + 1 < 0
                   THEN (IF stop + 1 + len < 0 THEN 0 - 1 ELSE stop + 1 + len)
                   ELSE (IF stop + 1 >= len THEN len - 1 ELSE stop + 1)
        count == IF len - 1 > lower THEN len - 1 - lower ELSE 0
    IN  [k \in 1..count |-> seq[len - k + 1]]

\* Python's seq[:stop:-1]: from the last element backwards, down to but
\* without position stop (0-based; a negative stop counts from the end and
\* a stop before the start takes everything)
SliceReversed(seq, stop) ==
    LET len == Len(seq)
        lower == IF stop < 0
                   THEN (IF stop + len < 0 THEN 0 - 1 ELSE stop + len)
                   ELSE (IF stop >= len THEN len - 1 ELSE stop)
        count == IF len - 1 > lower THEN len - 1 - lower ELSE 0
    IN  [k \in 1..count |-> seq[len - k + 1]]

\* a slip: argsort()[-n_top_words:], the top columns left in ascending order
TopFeaturesIndAscending(order, n) ==
    LET len == Len(order)
        from == IF n <= 0 THEN len + 1 ELSE IF n >= len THEN 1 ELSE len - n + 1
    IN  [k \in 1..(len - from + 1) |-> order[from + k - 1]]

\* a slip: the slice taken of the order without its last entry, the column
\* of the greatest weight
TopFeaturesIndSkippingTop(order, n) ==
    SliceReversed(SubSeq(order, 1, Len(order) - 1), 0 - n - 1)

\* topic.argsort()[: -n_top_words - 1 : -1]
TopFeaturesInd(order, n) == SliceReversed(order, 0 - n - 1)

\* feature_names[i] raises IndexError for an index past the end
LookupFails(names, ind) == \E k \in 1..Len(ind) : ind[k] > Len(names)

\* [feature_names[i] for i in top_features_ind]
TopFeatures(names, ind) == [k \in 1..Len(ind) |-> names[ind[k]]]

\* a slip: topic[:len(top_features_ind)], the first values of the row
WeightsOfFirstColumns(topic, ind) == [k \in 1..Len(ind) |-> topic[k]]

\* topic[top_features_ind]
Weights(topic, ind) == [k \in 1..Len(ind) |-> topic[ind[k]]]

(***************************************************************************)
(* State.                                                                  *)
(***************************************************************************)
VARIABLES
    components_,        \* model.components_, topics x terms
    feature_names,      \* the vocabulary
    n_top_words,
    normalize,
    components,         \* the local matrix that is ranked
    topic_idx,          \* the topic of the current iteration, from 0; -1 before
    top_features_ind,   \* locals of the current iteration
    top_features,
    weights,
    bars,               \* bars[t]: the barh call on axes[t - 1]
    pc,                 \* "start", "loop", "done", "raised"; "idle": no call
    raised,             \* the exception that ended the call, or "none"
    argsort_memo,       \* what argsort has returned, by the row it was given
    call,               \* 1 in the first call, 2 when the call is repeated
    first,              \* what the first call drew and raised
    raw,                \* preprocess: the argument
    text,               \* preprocess: the local text, in either copy
    step,               \* preprocess: the statement reached; "idle": no call
    cell,               \* the notebook cell reached; "idle": none is run
    similarities,       \* similar documents: the matrix of cosine similarities
    idx1,               \* similar documents: the first document found
    idx2,               \* similar documents: the second document found
    dtm,                \* DTM analysis: the document-term matrix
    counts,             \* DTM analysis: the frame of token and number
    shown,              \* DTM analysis: the rows the last cell displays
    to_train,           \* feature matrix: the documents, as lists of tokens
    X,                  \* feature matrix: the matrix
    idx,                \* feature matrix: the document reached
    n_added             \* feature matrix: the tokens of it added so far

\* the state of the notebook cells
notebook == <<cell, similarities, idx1, idx2, dtm, counts, shown, to_train, X,
              idx, n_added>>

vars == <<components_, feature_names, n_top_words, normalize, components,
          topic_idx, top_features_ind, top_features, weights, bars, pc, raised,
          argsort_memo, call, first, raw, text, step, notebook>>

inputs == <<components_, feature_names, n_top_words, normalize>>

\* what a step of plot_top_words leaves alone: the caller's record of the
\* first call, and preprocess
aside == <<call, first, raw, text, step, notebook>>

\* the cells that find the most similar documents are not run
SimilarIdle == similarities = <<>> /\ idx1 = 0 - 1 /\ idx2 = 0 - 1

\* the cells of the DTM analysis are not run
DtmIdle == dtm = <<>> /\ counts = <<>> /\ shown = <<>>

\* the feature matrix is not computed
FeatureIdle == to_train = <<>> /\ X = <<>> /\ idx = 0 /\ n_added = 0

\* no cell of the notebooks is run
NotebookIdle == cell = "idle" /\ SimilarIdle /\ DtmIdle /\ FeatureIdle

\* no call of preprocess is modelled
PreprocessIdle == raw = <<>> /\ text = <<>> /\ step = "idle"

\* argsort is a function of the row it is given: the order it leaves equal
\* values in is unspecified, but the same row comes out in the same order
ArgsortChoices(memo, topic) ==
    IF topic \in DOMAIN memo THEN {memo[topic]} ELSE ArgsortOutcomes(topic)

Remember(memo, topic, order) ==
    [r \in (DOMAIN memo) \cup {topic} |-> IF r = topic THEN order ELSE memo[r]]

TermNames == <<"a", "b", "c", "d", "e", "f", "g", "h">>

WeightValues == {w * Unit : w \in (0 - NegWeight)..MaxWeight}

\* the arguments of a call: any matrix, a vocabulary that may be one short
\* or one long, any n_top_words from -1 to one more than the terms.  The
\* figure has an axes for every topic (n_row * n_col >= topics), as in
\* every call of the notebooks.
Init ==
    /\ \E nt \in 1..MaxTopics, nc \in 1..MaxTerms :
          /\ components_ \in [1..nt -> [1..nc -> WeightValues]]
          /\ \E len \in {nc - 1, nc, nc + 1} :
                feature_names = SubSeq(TermNames, 1, len)
    /\ n_top_words \in (0 - 1)..(MaxTerms + 1)
    /\ normalize \in BOOLEAN
    /\ components = <<>>
    /\ topic_idx = 0 - 1
    /\ top_features_ind = <<>>
    /\ top_features = <<>>
    /\ weights = <<>>
    /\ bars = <<>>
    /\ pc = "start"
    /\ raised = "none"
    /\ argsort_memo = <<>>
    /\ call = 1
    /\ first = [bars |-> <<>>, raised |-> "none"]
    /\ PreprocessIdle
    /\ NotebookIdle

\* a slip: components /= components.sum(axis=1)[:, np.newaxis], the division
\* done in place on the array that is model.components_
NormalizeInPlace ==
    /\ pc = "start"
    /\ components' = IF normalize THEN NormalizeRows(components_) ELSE components_
    /\ components_' = components'
    /\ pc' = "loop"
    /\ UNCHANGED <<feature_names, n_top_words, normalize, topic_idx,
                   top_features_ind, top_features, weights, bars, raised,
                   argsort_memo, aside>>

\* components = model.components_, normalized if asked
Normalize ==
    /\ pc = "start"
    /\ components' = IF normalize THEN NormalizeRows(components_) ELSE components_
    /\ pc' = "loop"
    /\ UNCHANGED <<inputs, topic_idx, top_features_ind, top_features, weights,
                   bars, raised, argsort_memo, aside>>

\* one iteration of the loop over the topics, up to and with the bar plot
PlotTopic ==
    /\ pc = "loop"
    /\ topic_idx + 1 < Len(components)
    /\ \E order \in ArgsortChoices(argsort_memo, components[topic_idx + 2]) :
          LET topic == components[topic_idx + 2]
              ind == TopFeaturesInd(order, n_top_words)
          IN  /\ ~LookupFails(feature_names, ind)
              /\ argsort_memo' = Remember(argsort_memo, topic, order)
              /\ top_features_ind' = ind
              /\ top_features' = TopFeatures(feature_names, ind)
              /\ weights' = Weights(topic, ind)
              /\ bars' = Append(bars, [labels |-> TopFeatures(feature_names, ind),
                                      widths |-> Weights(topic, ind)])
    /\ topic_idx' = topic_idx + 1
    /\ UNCHANGED <<inputs, components, pc, raised, aside>>

\* the iteration in which feature_names[i] raises
PlotTopicIndexError ==
    /\ pc = "loop"
    /\ topic_idx + 1 < Len(components)
    /\ \E order \in ArgsortChoices(argsort_memo, components[topic_idx + 2]) :
          LET ind == TopFeaturesInd(order, n_top_words)
          IN  /\ LookupFails(feature_names, ind)
              /\ top_features_ind' = ind
              /\ argsort_memo' =
                    Remember(argsort_memo, components[topic_idx + 2], order)
    /\ topic_idx' = topic_idx + 1
    /\ pc' = "raised"
    /\ raised' = "IndexError"
    /\ UNCHANGED <<inputs, components, top_features, weights, bars, aside>>

\* return fig, axes
Return ==
    /\ pc = "loop"
    /\ topic_idx + 1 = Len(components)
    /\ pc' = "done"
    /\ UNCHANGED <<inputs, components, topic_idx, top_features_ind, top_features,
                   weights, bars, raised, argsort_memo, aside>>

Next == Normalize \/ PlotTopic \/ PlotTopicIndexError \/ Return

Spec == Init /\ [][Next]_vars

\* the caller calls plot_top_words again with the same model, feature_names,
\* n_top_words and normalize, once the first call has returned or raised
CallAgain ==
    /\ call = 1
    /\ pc \in {"done", "raised"}
    /\ first' = [bars |-> bars, raised |-> raised]
    /\ call' = 2
    /\ components' = <<>>
    /\ topic_idx' = 0 - 1
    /\ top_features_ind' = <<>>
    /\ top_features' = <<>>
    /\ weights' = <<>>
    /\ bars' = <<>>
    /\ pc' = "start"
    /\ raised' = "none"
    /\ UNCHANGED <<inputs, argsort_memo, raw, text, step, notebook>>

NextTwice == Next \/ CallAgain

SpecTwice == Init /\ [][NextTwice]_vars

(***************************************************************************)
(* What the claims speak about.                                            *)
(***************************************************************************)
NumTerms == Len(components_[1])

\* n_top_words is within 1..numTerms
ValidTopN == n_top_words >= 1 /\ n_top_words <= NumTerms

\* the current iteration has ranked its topic (top_features_ind is set)
Ranked == topic_idx >= 0

\* the current iteration has got past the lookup of the names: the locals
\* top_features and weights are those of topic topic_idx
Extracted == topic_idx >= 0 /\ pc # "raised"

\* the row being ranked in the current iteration
CurTopic == components[topic_idx + 1]

\* the columns top_features_ind selects
Selected == {top_features_ind[k] : k \in 1..Len(top_features_ind)}

Columns == 1..NumTerms

\* the vocabulary has one name per column
ShapeMatch == Len(feature_names) = NumTerms

\* every entry of model.components_ is non-negative
NonNegative ==
    \A r \in 1..Len(components_) : \A j \in Columns : components_[r][j] >= 0

\* arguments that meet every precondition of the extraction
WellFormed == ShapeMatch /\ ValidTopN /\ NonNegative

(***************************************************************************)
(* C1: for every matrix, every topic and every n_top_words within          *)
(* 1..numTerms, the weights extracted for the topic                        *)
(* (topic[top_features_ind]) are in non-increasing order from first to     *)
(* last.  The order is the one argsort ranks by, in which nan stands above *)
(* every number.                                                           *)
(***************************************************************************)
C1_WeightsNonIncreasing ==
    (Extracted /\ ValidTopN) =>
        \A k \in 1..(Len(weights) - 1) : weights[k] >= weights[k + 1]

\* a topic with three terms extracted, of three different weights, after the
\* normalisation
C1_Witness ==
    /\ Extracted /\ WellFormed /\ normalize
    /\ Len(weights) = 3
    /\ weights[1] > weights[2] /\ weights[2] > weights[3]
    /\ IsFinite(weights[1]) /\ IsFinite(weights[3])

(***************************************************************************)
(* C2: for every topic the n_top_words columns selected are ones of        *)
(* greatest value: every column not selected weighs at most as much as     *)
(* every selected column of the row (in the order argsort ranks by).       *)
(***************************************************************************)
C2_SelectedAreGreatest ==
    (Ranked /\ ValidTopN) =>
        \A i \in Selected : \A j \in Columns \ Selected : CurTopic[j] <= CurTopic[i]

\* two of three columns selected, the third one strictly lighter than both
C2_Witness ==
    /\ Extracted /\ WellFormed
    /\ NumTerms = 3 /\ n_top_words = 2
    /\ \E j \in Columns \ Selected : \A i \in Selected : CurTopic[j] < CurTopic[i]

(***************************************************************************)
(* C3: whenever two columns of a row carry exactly equal weight and both   *)
(* are among the topic's top terms, the column with the smaller index      *)
(* comes before the column with the larger index in the output.            *)
(***************************************************************************)
C3_TiesInAscendingIndexOrder ==
    (Extracted /\ WellFormed) =>
        \A k, l \in 1..Len(top_features_ind) :
            (k < l /\ CurTopic[top_features_ind[k]] = CurTopic[top_features_ind[l]])
                => top_features_ind[k] < top_features_ind[l]

(***************************************************************************)
(* C4: when columns of a row tie in weight at the n_top_words cutoff, so   *)
(* that only some of them are selected, the selected ones are those with   *)
(* the smallest indices.                                                   *)
(***************************************************************************)
C4_CutoffTiesKeepSmallestIndex ==
    (Extracted /\ WellFormed) =>
        \A i \in Selected : \A j \in Columns \ Selected :
            CurTopic[i] = CurTopic[j] => i < j

(***************************************************************************)
(* C5: for every matrix and every n_top_words within 1..numTerms, the top  *)
(* terms extracted for a topic are exactly n_top_words many.               *)
(***************************************************************************)
C5_ExactlyTopN ==
    (Extracted /\ ValidTopN) =>
        /\ Len(top_features_ind) = n_top_words
        /\ Len(top_features) = n_top_words
        /\ Len(weights) = n_top_words
        /\ \A t \in 1..Len(bars) :
              Len(bars[t].labels) = n_top_words /\ Len(bars[t].widths) = n_top_words

\* two of three terms extracted
C5_Witness ==
    /\ Extracted /\ WellFormed
    /\ NumTerms = 3 /\ n_top_words = 2
    /\ Len(top_features) = 2
    /\ Len(bars) = topic_idx + 1

(***************************************************************************)
(* C6: an n_top_words outside 1..numTerms (zero, negative, or more than    *)
(* the terms) makes the extraction fail with an error: the call never      *)
(* returns and no list of terms, clamped or truncated, is ever drawn.      *)
(***************************************************************************)
C6_InvalidTopNFails ==
    (ShapeMatch /\ NonNegative /\ ~ValidTopN) => (pc # "done" /\ bars = <<>>)

(***************************************************************************)
(* C7: with normalize, a row whose entries sum to exactly 0 raises an      *)
(* error and no top terms are produced for that row: the row is never      *)
(* ranked and nan weights never reach the selection and the plot.          *)
(***************************************************************************)
C7_DegenerateRowRaises ==
    \A r \in 1..Len(components_) :
        (WellFormed /\ normalize /\ RowSum(components_[r]) = 0) =>
            /\ topic_idx + 1 < r
            /\ Len(bars) < r
            /\ \A k \in 1..Len(weights) : ~IsNaN(weights[k])

(***************************************************************************)
(* C8: when the vocabulary is shorter or longer than the matrix has        *)
(* columns, the operation fails with a shape-mismatch error before any row *)
(* is normalized, ranked or drawn.                                         *)
(***************************************************************************)
C8_ShapeMismatchFailsFirst ==
    (ValidTopN /\ NonNegative /\ Len(feature_names) # NumTerms) =>
        /\ components = <<>>
        /\ topic_idx = 0 - 1
        /\ bars = <<>>
        /\ pc \in {"start", "raised"}

(***************************************************************************)
(* C9: with normalize, non-negative entries and every row sum non-zero,    *)
(* each row of the matrix used for the ranking sums to exactly 1 after the *)
(* division by its own row sum.                                            *)
(***************************************************************************)
\* the rows have been divided by sums that are not zero
NormalizedRegular ==
    /\ pc # "start"
    /\ normalize
    /\ NonNegative
    /\ \A r \in 1..Len(components_) : RowSum(components_[r]) # 0

C9_RowsSumToExactlyOne ==
    (WellFormed /\ NormalizedRegular) =>
        \A r \in 1..Len(components) : RowSum(components[r]) = Unit

\* the sum of a row in exact arithmetic
RECURSIVE ExactSumUpTo(_, _)
ExactSumUpTo(row, n) == IF n = 0 THEN 0 ELSE ExactSumUpTo(row, n - 1) + row[n]

ExactSum(row) == ExactSumUpTo(row, Len(row))

\* the machine epsilon 2^(1 - Precision), the spacing of the floats at 1
Epsilon == 2 ^ (Scale - Precision + 1)

\* C9 as amended: each row sums to 1 within floating-point tolerance, at
\* most numTerms * epsilon away from it, whether the sum is taken in floating
\* point or exactly
C9_RowsSumToOneWithinTolerance ==
    NormalizedRegular =>
        \A r \in 1..Len(components) :
            /\ Abs(RowSum(components[r]) - Unit) <= NumTerms * Epsilon
            /\ Abs(ExactSum(components[r]) - Unit) <= NumTerms * Epsilon

\* a normalized row whose sum is not 1, and a row of three different weights
C9_Witness ==
    /\ WellFormed /\ NormalizedRegular
    /\ \E r \in 1..Len(components) : RowSum(components[r]) # Unit
    /\ \E r \in 1..Len(components) :
          NumTerms = 3 /\ components[r][1] < components[r][2]
                       /\ components[r][2] < components[r][3]

(***************************************************************************)
(* C10: every (term, weight) pair of a topic's output is aligned with one  *)
(* column j of the row: the term is feature_names[j] and the weight is the *)
(* value, normalized if asked, of the row at column j.  The row            *)
(* [0.1, 0.0, 0.4, 0.5] with the vocabulary [a, b, c, d] and               *)
(* n_top_words = 2 gives [(d, 0.5), (c, 0.4)].                             *)
(***************************************************************************)
\* the value of column j of topic t that the ranking is to see
RankedValue(t, j) ==
    IF normalize THEN FDiv(components_[t][j], RowSum(components_[t]))
    ELSE components_[t][j]

\* the example's row, in tenths
ExampleRow == <<1, 0, 4, 5>>

ExampleVocabulary == <<"a", "b", "c", "d">>

\* what the extraction gives on the example, whatever argsort does
ExampleOutcome ==
    \A order \in ArgsortOutcomes(ExampleRow) :
        LET ind == TopFeaturesInd(order, 2)
        IN  /\ TopFeatures(ExampleVocabulary, ind) = <<"d", "c">>
            /\ Weights(ExampleRow, ind) = <<5, 4>>

C10_PairsAlignedWithColumns ==
    /\ Extracted =>
          \A k \in 1..Len(top_features) :
              \E j \in Columns :
                  /\ top_features_ind[k] = j
                  /\ top_features[k] = feature_names[j]
                  /\ weights[k] = RankedValue(topic_idx + 1, j)
    /\ \A t \in 1..Len(bars) :
          /\ Len(bars[t].labels) = Len(bars[t].widths)
          /\ \A k \in 1..Len(bars[t].labels) :
                \E j \in Columns :
                    /\ bars[t].labels[k] = feature_names[j]
                    /\ bars[t].widths[k] = RankedValue(t, j)
    /\ ExampleOutcome

\* two terms extracted from a normalized row of three different weights
C10_Witness ==
    /\ Extracted /\ WellFormed /\ normalize
    /\ NumTerms = 3 /\ Len(top_features) = 2
    /\ \A i, j \in Columns : i # j => CurTopic[i] # CurTopic[j]
    /\ top_features_ind[1] < top_features_ind[2]
    /\ bars[topic_idx + 1] = [labels |-> top_features, widths |-> weights]

\* ---------------------------------------------------------------------------
\* C11: a call never modifies what it was given: the model's components_
\* matrix, the feature names, n_top_words and normalize are after every step
\* of the call what they were before it (normalizing builds a new matrix).
C11_InputsNeverModified == [][inputs' = inputs]_vars

\* a call that normalized a well-formed matrix into a different one has
\* returned
C11_Witness ==
    /\ pc = "done"
    /\ WellFormed
    /\ NormalizedRegular
    /\ components # components_
    /\ Len(bars) = Len(components_)
    /\ Len(bars) = 2

\* ---------------------------------------------------------------------------
\* C12: two calls with identical inputs give identical outputs: whatever the
\* repeated call has drawn so far, topic by topic, is what the first call drew
\* for that topic (the same terms in the same order, with equal weights), and
\* once it has ended it has drawn as many topics and raised the same.
C12_RepeatedCallSameOutput ==
    call = 2 =>
        /\ \A t \in 1..Len(bars) : t <= Len(first.bars) /\ bars[t] = first.bars[t]
        /\ pc \in {"done", "raised"} =>
              /\ Len(bars) = Len(first.bars)
              /\ raised = first.raised

\* the repeated call has returned, after drawing two normalized topics of
\* which one has two terms of the same weight
C12_Witness ==
    /\ call = 2
    /\ pc = "done"
    /\ WellFormed
    /\ NormalizedRegular
    /\ Len(bars) = 2
    /\ n_top_words >= 2
    /\ \E t \in 1..2 : bars[t].widths[1] = bars[t].widths[2]
    /\ \E t \in 1..2 : bars[t].widths[1] # bars[t].widths[2]

\* ---------------------------------------------------------------------------
\* C13: with n_top_words equal to the number of terms, a topic's output has
\* every term of the vocabulary exactly once (every column selected once, the
\* names in the selected order), in descending order of weight.
C13_AllTermsOnceDescending ==
    (Extracted /\ ShapeMatch /\ n_top_words = NumTerms) =>
        /\ Len(top_features_ind) = NumTerms
        /\ Selected = Columns
        /\ \A j \in Columns :
              Cardinality({k \in 1..Len(top_features) :
                              top_features[k] = feature_names[j]}) = 1
        /\ \A k \in 1..(Len(weights) - 1) : weights[k] >= weights[k + 1]
        /\ bars[topic_idx + 1].labels = top_features
        /\ bars[topic_idx + 1].widths = weights

\* all three terms of a second topic extracted, two of them of equal weight
C13_Witness ==
    /\ Extracted /\ WellFormed
    /\ n_top_words = NumTerms
    /\ NumTerms = 3
    /\ topic_idx = 1
    /\ weights[1] > weights[2]
    /\ weights[2] = weights[3]

\* the row of model.components_ the current topic was made from
RawTopic == components_[topic_idx + 1]

\* the topic just extracted, in a normalizing call, came from a row of
\* positive sum
NormalizedPositive ==
    /\ Extracted
    /\ normalize
    /\ IsFinite(RowSum(RawTopic))
    /\ RowSum(RawTopic) > 0

\* the columns selected are, in their order, what a call without normalize
\* can select from the same row
SameRankingAsRaw ==
    \E order \in ArgsortOutcomes(RawTopic) :
        top_features_ind = TopFeaturesInd(order, n_top_words)

\* every weight of the output is the raw weight of its column divided by the
\* sum of the row
WeightsAreRawOverSum ==
    \A k \in 1..Len(weights) :
        weights[k] = FDiv(RawTopic[top_features_ind[k]], RowSum(RawTopic))

\* the distance from 1.0 to the float just below it
Ulp == 2 ^ (Scale - Precision)

\* weights that include two neighbouring floats, 1.0 and the one below it
NearWeightValues == {0, Unit \div 2, Unit - Ulp, Unit}

\* plot_top_words called on a fitted model whose weights lie close together
InitNear ==
    /\ \E nt \in 1..MaxTopics, nc \in 1..MaxTerms :
          /\ components_ \in [1..nt -> [1..nc -> NearWeightValues]]
          /\ \E len \in {nc - 1, nc, nc + 1} :
                feature_names = SubSeq(TermNames, 1, len)
    /\ n_top_words \in (0 - 1)..(MaxTerms + 1)
    /\ normalize \in BOOLEAN
    /\ components = <<>>
    /\ topic_idx = 0 - 1
    /\ top_features_ind = <<>>
    /\ top_features = <<>>
    /\ weights = <<>>
    /\ bars = <<>>
    /\ pc = "start"
    /\ raised = "none"
    /\ argsort_memo = <<>>
    /\ call = 1
    /\ first = [bars |-> <<>>, raised |-> "none"]
    /\ PreprocessIdle
    /\ NotebookIdle

SpecNear == InitNear /\ [][Next]_vars

\* ---------------------------------------------------------------------------
\* C14: for every row with positive sum, a call with normalize selects the
\* same terms in the same order as a call without it, each weight is the raw
\* weight divided by the sum of the row, and for a row that sums to 1 the
\* weights are the raw weights.
C14_NormalizeKeepsRanking ==
    (NormalizedPositive /\ WellFormed) =>
        /\ SameRankingAsRaw
        /\ WeightsAreRawOverSum
        /\ RowSum(RawTopic) = Unit => weights = Weights(RawTopic, top_features_ind)

\* no two weights of the row that differ have the same quotient by its sum
QuotientsDistinct ==
    \A i, j \in Columns :
        RawTopic[i] # RawTopic[j] => CurTopic[i] # CurTopic[j]

\* C14, amended: the division rounds, and two weights that differ can have
\* the same quotient; the ranking is then the raw one only up to the order
\* and the choice among terms of equal normalized weight.  For every row
\* with positive sum, each weight is the raw weight divided by the sum of the
\* row; a term that comes out with a greater weight than another term, or
\* than a term left out, has the greater raw weight; when no two different
\* weights of the row share a quotient (as in a row that sums to 1, whose
\* weights come out as they are), the terms and their order are what a call
\* without normalize can select.
C14_NormalizeKeepsRankingUpToMerged ==
    NormalizedPositive =>
        /\ WeightsAreRawOverSum
        /\ \A k, l \in 1..Len(weights) :
              weights[k] > weights[l] =>
                  RawTopic[top_features_ind[k]] > RawTopic[top_features_ind[l]]
        /\ \A i \in Selected, j \in Columns \ Selected :
              /\ CurTopic[i] >= CurTopic[j]
              /\ CurTopic[i] > CurTopic[j] => RawTopic[i] > RawTopic[j]
        /\ QuotientsDistinct => SameRankingAsRaw
        /\ RowSum(RawTopic) = Unit =>
              /\ QuotientsDistinct
              /\ weights = Weights(RawTopic, top_features_ind)

\* the three terms of a row of positive sum came out in an order no call
\* without normalize selects, two different weights having the same quotient
C14_Witness ==
    /\ NormalizedPositive
    /\ ShapeMatch
    /\ n_top_words = 3
    /\ Len(weights) = 3
    /\ ~QuotientsDistinct
    /\ ~SameRankingAsRaw

\* what the call ranks for one row of model.components_, from that row alone
RankedRow(row) ==
    IF normalize THEN [j \in 1..Len(row) |-> FDiv(row[j], RowSum(row))] ELSE row

\* what is drawn for a row whose ranked weights argsort puts in this order,
\* from the vocabulary and n_top_words
OutputOfRanked(ranked, order) ==
    LET ind == TopFeaturesInd(order, n_top_words)
    IN  [labels |-> TopFeatures(feature_names, ind),
         widths |-> Weights(ranked, ind)]

\* ---------------------------------------------------------------------------
\* C15: the output for row i depends only on row i, the vocabulary,
\* n_top_words and normalize: every topic drawn is what these alone determine
\* (with the order argsort gives the row), whatever the other rows of the
\* matrix are.
C15_OutputDependsOnOwnRowOnly ==
    \A t \in 1..Len(bars) :
        LET ranked == RankedRow(components_[t])
        IN  /\ ranked \in DOMAIN argsort_memo
            /\ bars[t] = OutputOfRanked(ranked, argsort_memo[ranked])

\* two normalized topics drawn, from rows of different sums and different
\* rankings
C15_Witness ==
    /\ WellFormed
    /\ NormalizedRegular
    /\ Len(bars) = 2
    /\ NumTerms = 3
    /\ n_top_words = 2
    /\ RowSum(components_[1]) # RowSum(components_[2])
    /\ bars[1].labels # bars[2].labels
    /\ bars[1].widths # bars[2].widths

(***************************************************************************)
(* preprocess(text), the tweet-preprocessing pipeline.  A text is a        *)
(* sequence of characters, each a string of length one.  The two copies of *)
(* the function, "bow" (the Bag-of-Words solutions) and "w2v" (the Word    *)
(* Embeddings notebooks), differ in url_pattern only; they run side by     *)
(* side on the same argument.                                              *)
(***************************************************************************)
MaxAtoms == 4

LowerLetters ==
    <<"a", "b", "c", "d", "e", "f", "g", "h", "i", "j", "k", "l", "m",
      "n", "o", "p", "q", "r", "s", "t", "u", "v", "w", "x", "y", "z">>

UpperLetters ==
    <<"A", "B", "C", "D", "E", "F", "G", "H", "I", "J", "K", "L", "M",
      "N", "O", "P", "Q", "R", "S", "T", "U", "V", "W", "X", "Y", "Z">>

Range(seq) == {seq[k] : k \in 1..Len(seq)}

\* \d
Digits == {"0", "1", "2", "3", "4", "5", "6", "7", "8", "9"}

\* \w
WordChars == Range(LowerLetters) \cup Range(UpperLetters) \cup Digits \cup {"_"}

\* \s
Whitespace == {" ", "\t", "\n", "\r", "\f"}

\* [\w_-]
HostChars == WordChars \cup {"-"}

\* [\w@?^=%&\/~+#-]
PathEndChars == WordChars \cup {"@", "?", "^", "=", "%", "&", "/", "~", "+", "#", "-"}

\* [\w.,@?^=%&:\/~+#-]
PathChars == PathEndChars \cup {".", ",", ":"}

\* [\r\n]
LineEnds == {"\r", "\n"}

\* the literal [???#] of hashtag_pattern: a question mark or a hash
HashtagMarks == {"?", "#"}

url_repl == <<" ", "U", "R", "L", " ">>
digit_repl == <<" ", "D", "I", "G", "I", "T", " ">>
hashtag_repl == <<" ", "H", "A", "S", "H", "T", "A", "G", " ">>
user_repl == <<" ", "U", "S", "E", "R", " ">>
blankspace_repl == <<" ">>

Copies == {"bow", "w2v"}

\* str.lower() of one character
LowerChar(c) ==
    IF c \in Range(UpperLetters)
      THEN LowerLetters[CHOOSE k \in 1..Len(UpperLetters) : UpperLetters[k] = c]
      ELSE c

\* text.lower()
Lower(t) == [k \in 1..Len(t) |-> LowerChar(t[k])]

\* the text has the literal at position i
HasAt(t, i, lit) ==
    /\ i >= 1
    /\ i + Len(lit) - 1 <= Len(t)
    /\ \A k \in 1..Len(lit) : t[i + k - 1] = lit[k]

\* where the longest run of characters of the class that starts at i ends;
\* i - 1 when there is none
RECURSIVE RunEnd(_, _, _)
RunEnd(t, i, class) ==
    IF i <= Len(t) /\ t[i] \in class THEN RunEnd(t, i + 1, class) ELSE i - 1

\* the last position from i to j whose character is of the class; 0 if none
RECURSIVE LastOf(_, _, _, _)
LastOf(t, i, j, class) ==
    IF j < i THEN 0
    ELSE IF t[j] \in class THEN j
    ELSE LastOf(t, i, j - 1, class)

\* where (http|ftp|https):\/\/ matched at i ends; 0 if it does not match
BowSchemeEnd(t, i) ==
    IF HasAt(t, i, <<"h", "t", "t", "p", ":", "/", "/">>) THEN i + 6
    ELSE IF HasAt(t, i, <<"f", "t", "p", ":", "/", "/">>) THEN i + 5
    ELSE IF HasAt(t, i, <<"h", "t", "t", "p", "s", ":", "/", "/">>) THEN i + 7
    ELSE 0

\* where the url_pattern of the Bag-of-Words copy matched at i ends; 0 if it
\* does not match.  After the scheme: a host, [\w_-]+ and at least one
\* \.[\w_-]+, then [\w.,@?^=%&:\/~+#-]* as far as it goes, given back up
\* to the last character of [\w@?^=%&\/~+#-], which the host leaves over
BowUrlMatchEnd(t, i) ==
    LET s == BowSchemeEnd(t, i)
        h == RunEnd(t, s + 1, HostChars)
        last == LastOf(t, s + 1, RunEnd(t, s + 1, PathChars), PathEndChars)
    IN  IF /\ s > 0
           /\ h > s
           /\ HasAt(t, h + 1, <<".">>)
           /\ h + 2 <= Len(t)
           /\ t[h + 2] \in HostChars
           /\ last > h + 2
          THEN last
          ELSE 0

\* where https?:\/\/ matched at i ends; 0 if it does not match
W2vSchemeEnd(t, i) ==
    IF HasAt(t, i, <<"h", "t", "t", "p", "s", ":", "/", "/">>) THEN i + 7
    ELSE IF HasAt(t, i, <<"h", "t", "t", "p", ":", "/", "/">>) THEN i + 6
    ELSE 0

\* where the url_pattern of the Word Embeddings copies, https?:\/\/.*[\r\n]*,
\* matched at i ends; 0 if it does not match.  The dot matches every
\* character but "\n"
W2vUrlMatchEnd(t, i) ==
    LET s == W2vSchemeEnd(t, i)
        NotNewline == Range(t) \ {"\n"}
    IN  IF s > 0
          THEN RunEnd(t, RunEnd(t, s + 1, NotNewline) + 1, LineEnds)
          ELSE 0

\* a slip: \d\d+, a number of one digit not taken as a number
DigitMatchEndTwoOrMore(t, i) ==
    IF RunEnd(t, i, Digits) > i THEN RunEnd(t, i, Digits) ELSE 0

\* \d+
DigitMatchEnd(t, i) == IF RunEnd(t, i, Digits) >= i THEN RunEnd(t, i, Digits) ELSE 0

\* (?:^|\s)[???#]{1}(\w+): at the start of the text, or after one
\* whitespace character that the match takes with it
HashtagMatchEnd(t, i) ==
    LET from == IF i = 1 /\ HasAt(t, 1, <<"?">>) THEN 1
                ELSE IF i = 1 /\ HasAt(t, 1, <<"#">>) THEN 1
                ELSE IF i <= Len(t) /\ t[i] \in Whitespace THEN i + 1
                ELSE 0
    IN  IF /\ from > 0
           /\ from <= Len(t)
           /\ t[from] \in HashtagMarks
           /\ RunEnd(t, from + 1, WordChars) > from
          THEN RunEnd(t, from + 1, WordChars)
          ELSE 0

\* a slip: (?:^|\s)@(\w+), a user looked for as a hashtag is
UserMatchEndAfterBlank(t, i) ==
    LET from == IF i = 1 /\ HasAt(t, 1, <<"@">>) THEN 1
                ELSE IF i <= Len(t) /\ t[i] \in Whitespace THEN i + 1
                ELSE 0
    IN  IF /\ from > 0
           /\ HasAt(t, from, <<"@">>)
           /\ RunEnd(t, from + 1, WordChars) > from
          THEN RunEnd(t, from + 1, WordChars)
          ELSE 0

\* @(\w+)
UserMatchEnd(t, i) ==
    IF HasAt(t, i, <<"@">>) /\ RunEnd(t, i + 1, WordChars) > i
      THEN RunEnd(t, i + 1, WordChars)
      ELSE 0

\* \s+
BlankMatchEnd(t, i) ==
    IF RunEnd(t, i, Whitespace) >= i THEN RunEnd(t, i, Whitespace) ELSE 0

\* where the pattern matched at i ends; 0 if it does not match at i
MatchEnd(pattern, t, i) ==
    CASE pattern = "url_pattern bow" -> BowUrlMatchEnd(t, i)
      [] pattern = "url_pattern w2v" -> W2vUrlMatchEnd(t, i)
      [] pattern = "digit_pattern" -> DigitMatchEnd(t, i)
      [] pattern = "hashtag_pattern" -> HashtagMatchEnd(t, i)
      [] pattern = "user_pattern" -> UserMatchEnd(t, i)
      [] pattern = "blankspace_pattern" -> BlankMatchEnd(t, i)

\* re.sub(pattern, repl, text) from position i on: the leftmost match is
\* replaced and the scan goes on after it; no pattern here matches the
\* empty string
RECURSIVE SubFrom(_, _, _, _)
SubFrom(pattern, repl, t, i) ==
    IF i > Len(t) THEN <<>>
    ELSE LET e == MatchEnd(pattern, t, i)
         IN  IF e >= i
               THEN repl \o SubFrom(pattern, repl, t, e + 1)
               ELSE <<t[i]>> \o SubFrom(pattern, repl, t, i + 1)

Sub(pattern, repl, t) == SubFrom(pattern, repl, t, 1)

\* a slip: str.lstrip(), the whitespace at the end left where it is
StripLeading(t) ==
    LET inner == {k \in 1..Len(t) : t[k] \notin Whitespace}
    IN  IF inner = {} THEN <<>>
        ELSE SubSeq(t, CHOOSE k \in inner : \A l \in inner : k <= l, Len(t))

\* str.strip()
Strip(t) ==
    LET inner == {k \in 1..Len(t) : t[k] \notin Whitespace}
    IN  IF inner = {} THEN <<>>
        ELSE SubSeq(t, CHOOSE k \in inner : \A l \in inner : k <= l,
                       CHOOSE k \in inner : \A l \in inner : k >= l)

UrlPattern(copy) == IF copy = "bow" THEN "url_pattern bow" ELSE "url_pattern w2v"

\* the pieces the arguments are put together from: letters, a number, the
\* marks of a hashtag and of a user, a space, a line end, a full stop, and a
\* URL
Atoms ==
    {<<"a">>, <<"B">>, <<"7">>, <<"#">>, <<"@">>, <<" ">>, <<"\n">>, <<".">>,
     <<"h", "t", "t", "p", ":", "/", "/", "t", ".", "c", "o">>}

RECURSIVE TextsUpTo(_)
TextsUpTo(n) ==
    IF n = 0 THEN {<<>>}
    ELSE LET shorter == TextsUpTo(n - 1)
         IN  shorter \cup {t \o a : t \in shorter, a \in Atoms}

\* no call of plot_top_words is modelled
PlotIdle ==
    /\ components_ = <<>>
    /\ feature_names = <<>>
    /\ n_top_words = 0
    /\ normalize = FALSE
    /\ components = <<>>
    /\ topic_idx = 0 - 1
    /\ top_features_ind = <<>>
    /\ top_features = <<>>
    /\ weights = <<>>
    /\ bars = <<>>
    /\ pc = "idle"
    /\ raised = "none"
    /\ argsort_memo = <<>>
    /\ call = 1
    /\ first = [bars |-> <<>>, raised |-> "none"]

\* what a step of preprocess leaves alone: its argument, and plot_top_words
kept == <<raw, components_, feature_names, n_top_words, normalize, components,
          topic_idx, top_features_ind, top_features, weights, bars, pc, raised,
          argsort_memo, call, first, notebook>>

\* preprocess(text) called, in both copies, on the same text
InitPre ==
    /\ raw \in TextsUpTo(MaxAtoms)
    /\ text = [c \in Copies |-> raw]
    /\ step = "lower"
    /\ PlotIdle
    /\ NotebookIdle

\* text = text.lower()
Lowercase ==
    /\ step = "lower"
    /\ text' = [c \in Copies |-> Lower(text[c])]
    /\ step' = "urls"
    /\ UNCHANGED kept

\* text = re.sub(url_pattern, url_repl, text)
ReplaceUrls ==
    /\ step = "urls"
    /\ text' = [c \in Copies |-> Sub(UrlPattern(c), url_repl, text[c])]
    /\ step' = "digits"
    /\ UNCHANGED kept

\* text = re.sub(digit_pattern, digit_repl, text)
ReplaceDigits ==
    /\ step = "digits"
    /\ text' = [c \in Copies |-> Sub("digit_pattern", digit_repl, text[c])]
    /\ step' = "hashtags"
    /\ UNCHANGED kept

\* text = re.sub(hashtag_pattern, hashtag_repl, text)
ReplaceHashtags ==
    /\ step = "hashtags"
    /\ text' = [c \in Copies |-> Sub("hashtag_pattern", hashtag_repl, text[c])]
    /\ step' = "users"
    /\ UNCHANGED kept

\* text = re.sub(user_pattern, user_repl, text)
ReplaceUsers ==
    /\ step = "users"
    /\ text' = [c \in Copies |-> Sub("user_pattern", user_repl, text[c])]
    /\ step' = "blanks"
    /\ UNCHANGED kept

\* text = re.sub(blankspace_pattern, blankspace_repl, text).strip()
RemoveBlankSpaces ==
    /\ step = "blanks"
    /\ text' = [c \in Copies |->
                  Strip(Sub("blankspace_pattern", blankspace_repl, text[c]))]
    /\ step' = "return"
    /\ UNCHANGED kept

\* return text
ReturnText ==
    /\ step = "return"
    /\ step' = "done"
    /\ UNCHANGED <<text, kept>>

NextPre ==
    \/ Lowercase
    \/ ReplaceUrls
    \/ ReplaceDigits
    \/ ReplaceHashtags
    \/ ReplaceUsers
    \/ RemoveBlankSpaces
    \/ ReturnText

SpecPre == InitPre /\ [][NextPre]_vars

\* preprocess has returned
Returned == step = "done"

\* the words of a text: its longest runs of characters other than whitespace
Words(t) ==
    {SubSeq(t, i, j) : <<i, j>> \in
        {ij \in (1..Len(t)) \X (1..Len(t)) :
            /\ ij[1] <= ij[2]
            /\ \A k \in ij[1]..ij[2] : t[k] \notin Whitespace
            /\ ij[1] = 1 \/ t[ij[1] - 1] \in Whitespace
            /\ ij[2] = Len(t) \/ t[ij[2] + 1] \in Whitespace}}

\* the text has :// in it, as every URL has
HasScheme(t) == \E k \in 1..Len(t) : HasAt(t, k, <<":", "/", "/">>)

\* how many times the literal stands in the text
CountOf(lit, t) == Cardinality({k \in 1..Len(t) : HasAt(t, k, lit)})

\* a hashtag, or a user, stands at position i: the mark, then a character
\* of a word
MarkedWordAt(t, i, mark) ==
    /\ HasAt(t, i, <<mark>>)
    /\ i + 1 <= Len(t)
    /\ t[i + 1] \in WordChars

\* the hashtags of a text: a # at its start or after whitespace, followed
\* by a character of a word
HashtagsIn(t) ==
    {i \in 1..Len(t) :
        /\ MarkedWordAt(t, i, "#")
        /\ i = 1 \/ t[i - 1] \in Whitespace}

\* ---------------------------------------------------------------------------
\* C16: preprocess replaces each URL, and only the URL, by URL, in every
\* copy: when the URLs have been replaced, every word of the lowercased
\* text that is no URL (it has no :// in it), a word that follows a URL on
\* the same line included, is still a word of the text.
C16_OnlyTheUrlIsReplaced ==
    step = "digits" =>
        \A c \in Copies :
            \A w \in Words(Lower(raw)) : ~HasScheme(w) => w \in Words(text[c])

\* ---------------------------------------------------------------------------
\* C17: the preprocess of the Word Embeddings notebooks returns, for every
\* text, the string the preprocess of the Bag-of-Words solutions returns.
C17_CopiesReturnTheSame ==
    Returned => text["w2v"] = text["bow"]

\* ---------------------------------------------------------------------------
\* C18: every # of the text that stands at its start or after whitespace and
\* is followed by a character of a word is replaced by HASHTAG, and no such
\* hashtag is left in what preprocess returns.  (Stated for texts that have
\* no URL in them.)
C18_EveryHashtagReplaced ==
    (Returned /\ ~HasScheme(Lower(raw))) =>
        \A c \in Copies :
            /\ HashtagsIn(text[c]) = {}
            /\ CountOf(<<"H", "A", "S", "H", "T", "A", "G">>, text[c])
                  >= Cardinality(HashtagsIn(raw))

\* ---------------------------------------------------------------------------
\* C19: once the numbers have been replaced the text has no digit in it, in
\* any copy, and so has none when preprocess returns: no later step puts a
\* digit in.
C19_NoDigitLeft ==
    step \in {"hashtags", "users", "blanks", "return", "done"} =>
        \A c \in Copies : \A k \in 1..Len(text[c]) : text[c][k] \notin Digits

\* preprocess has returned DIGIT twice, for a text of two numbers
C19_Witness ==
    /\ Returned
    /\ Cardinality({k \in 1..Len(raw) : raw[k] \in Digits}) = 2
    /\ \A c \in Copies : CountOf(<<"D", "I", "G", "I", "T">>, text[c]) = 2

\* ---------------------------------------------------------------------------
\* C20: what preprocess returns has no @ immediately followed by a character
\* of a word, in any copy; nor has the text from the replacement of the
\* users on.
C20_NoUserLeft ==
    step \in {"blanks", "return", "done"} =>
        \A c \in Copies : \A k \in 1..Len(text[c]) : ~MarkedWordAt(text[c], k, "@")

\* preprocess has returned USER for a user named in the middle of a word,
\* and has left alone an @ that no word followed
C20_Witness ==
    /\ Returned
    /\ \E k \in 2..Len(raw) : MarkedWordAt(raw, k, "@") /\ raw[k - 1] \in WordChars
    /\ \A c \in Copies :
          /\ CountOf(<<"U", "S", "E", "R">>, text[c]) = 1
          /\ CountOf(<<"@">>, text[c]) = 1

\* ---------------------------------------------------------------------------
\* C21: what preprocess returns, in any copy, neither starts nor ends with
\* whitespace, and every run of whitespace in it (those the replacements by
\* URL, DIGIT, HASHTAG and USER brought in included) is one space.
C21_BlankSpaceRemoved ==
    step \in {"return", "done"} =>
        \A c \in Copies :
            LET t == text[c]
            IN  /\ Len(t) > 0 => t[1] \notin Whitespace /\ t[Len(t)] \notin Whitespace
                /\ \A k \in 1..Len(t) : t[k] \in Whitespace => t[k] = " "
                /\ \A k \in 1..(Len(t) - 1) :
                      ~(t[k] \in Whitespace /\ t[k + 1] \in Whitespace)

\* preprocess has returned DIGIT and a word a space apart, for a text that
\* began with a line end and ended with a space
C21_Witness ==
    /\ Returned
    /\ Len(raw) >= 4
    /\ raw[1] = "\n"
    /\ raw[Len(raw)] = " "
    /\ \A c \in Copies :
          /\ CountOf(<<"T", " ", "a">>, text[c]) = 1
          /\ CountOf(<<" ">>, text[c]) = 1

\* the topic just ranked, in a normalizing call, came from a row whose
\* entries sum to a negative number
NormalizedNegative ==
    /\ Ranked
    /\ normalize
    /\ ShapeMatch
    /\ ValidTopN
    /\ IsFinite(RowSum(RawTopic))
    /\ RowSum(RawTopic) < 0

MaxDocs == 3

\* the values a cosine similarity takes here: -1/2, 0, 1/4, 1/2 and 1
SimilarityValues ==
    {0 - (Unit \div 2), 0, Unit \div 4, Unit \div 2, Unit}

\* what is left of the plot and of preprocess while the cells are run
idle == <<components_, feature_names, n_top_words, normalize, components,
          topic_idx, top_features_ind, top_features, weights, bars, pc, raised,
          argsort_memo, call, first, raw, text, step>>

\* a slip: the diagonal left as it is
DiagonalKept(m, value) == m

\* np.fill_diagonal(similarities, 0)
FillDiagonal(m, value) ==
    [i \in 1..Len(m) |-> [j \in 1..Len(m[i]) |-> IF i = j THEN value ELSE m[i][j]]]

\* the matrix read row after row, as np.argmax reads it
RECURSIVE FlatUpTo(_, _)
FlatUpTo(m, r) == IF r = 0 THEN <<>> ELSE FlatUpTo(m, r - 1) \o m[r]

Flat(m) == FlatUpTo(m, Len(m))

\* np.argmax: the position, from 0, of the first of the greatest entries
ArgMax(m) ==
    LET flat == Flat(m)
        greatest == {k \in 1..Len(flat) : \A l \in 1..Len(flat) : flat[k] >= flat[l]}
    IN  (CHOOSE k \in greatest : \A l \in greatest : k <= l) - 1

\* np.unravel_index(k, similarities.shape)
UnravelIndex(k, m) == <<k \div Len(m[1]), k % Len(m[1])>>

\* similarities = cosine_similarity(topic_representation): a symmetric matrix
\* with ones on its diagonal, over two documents or more
InitSim ==
    /\ \E n \in 2..MaxDocs :
          \E above \in [{p \in (1..n) \X (1..n) : p[1] < p[2]} -> SimilarityValues] :
              similarities =
                  [i \in 1..n |-> [j \in 1..n |->
                      IF i = j THEN Unit
                      ELSE IF i < j THEN above[<<i, j>>] ELSE above[<<j, i>>]]]
    /\ idx1 = 0 - 1
    /\ idx2 = 0 - 1
    /\ cell = "similarities"
    /\ DtmIdle
    /\ FeatureIdle
    /\ PlotIdle
    /\ PreprocessIdle

\* np.fill_diagonal(similarities, 0)
ZeroDiagonal ==
    /\ cell = "similarities"
    /\ similarities' = FillDiagonal(similarities, 0)
    /\ cell' = "fill_diagonal"
    /\ UNCHANGED <<idx1, idx2, dtm, counts, shown, to_train, X, idx, n_added, idle>>

\* idx1, idx2 = np.unravel_index(np.argmax(similarities), similarities.shape)
FindHighest ==
    /\ cell = "fill_diagonal"
    /\ idx1' = UnravelIndex(ArgMax(similarities), similarities)[1]
    /\ idx2' = UnravelIndex(ArgMax(similarities), similarities)[2]
    /\ cell' = "argmax"
    /\ UNCHANGED <<similarities, dtm, counts, shown, to_train, X, idx, n_added, idle>>

NextSim == ZeroDiagonal \/ FindHighest

SpecSim == InitSim /\ [][NextSim]_vars

\* the pairs of different documents
Pairs == {p \in (1..Len(similarities)) \X (1..Len(similarities)) : p[1] # p[2]}

\* the two documents have been looked for
Found == cell = "argmax"

\* idx1 and idx2 are two different documents, and no two different
\* documents are more similar
HighestPairFound ==
    /\ idx1 # idx2
    /\ \A p \in Pairs :
          similarities[idx1 + 1][idx2 + 1] >= similarities[p[1]][p[2]]

\* ---------------------------------------------------------------------------
\* C22: for every similarity matrix over two documents or more, after the
\* diagonal is zeroed and the argmax taken, idx1 and idx2 are two different
\* documents and their similarity is at least that of every other pair of
\* different documents.
C22_HighestPairFound == Found => HighestPairFound

\* two different documents are more similar than not at all
SomePairPositive == \E p \in Pairs : similarities[p[1]][p[2]] > 0

\* C22, amended: the zero written on the diagonal is itself the greatest
\* entry when no two different documents have a similarity above 0, and the
\* argmax then names the first document twice.  When some pair of different
\* documents has a similarity above 0, idx1 and idx2 are two different
\* documents and their similarity is at least that of every other pair of
\* different documents; otherwise idx1 and idx2 are both document 0.
C22_HighestPairFoundWhenPositive ==
    Found =>
        /\ SomePairPositive => HighestPairFound
        /\ ~SomePairPositive => idx1 = 0 /\ idx2 = 0

\* of three documents the last two, more similar to each other than either
\* is to the first, have been found
C22_Witness ==
    /\ Found
    /\ Len(similarities) = 3
    /\ idx1 = 1
    /\ idx2 = 2
    /\ similarities[1][2] < 0
    /\ similarities[1][3] = 0
    /\ similarities[2][3] > 0

(***************************************************************************)
(* Bag-of-Words, Challenge 3: which token appears the most in any given    *)
(* tweet.  dtm[t][j] is the count of token j in tweet t - 1; the tweets are *)
(* numbered from 0, as the index of the frame is.                          *)
(***************************************************************************)
MaxTweets == 2

MaxCount == 2

HeadRows == 10

\* the columns of the DTM, in the order CountVectorizer puts them
DtmTokens == <<"digit", "flight", "user", "worst">>

\* the tokens the last cell leaves out
Placeholders == {"digit", "hashtag", "user"}

\* the greatest of a set of numbers
Greatest(S) == CHOOSE x \in S : \A y \in S : x >= y

\* dtm.max(axis=1), for one row
RowMax(row) == Greatest({row[j] : j \in 1..Len(row)})

\* dtm.idxmax(axis=1), for one row: the first column of the greatest count
RowIdxMax(row) ==
    DtmTokens[CHOOSE j \in 1..Len(row) :
                 /\ row[j] = RowMax(row)
                 /\ \A l \in 1..(j - 1) : row[l] < RowMax(row)]

\* counts[(counts['token'] != 'digit') & (counts['token'] != 'hashtag')
\*        & (counts['token'] != 'user')]: the rows kept
Kept(frame) == {t \in 1..Len(frame) : frame[t].token \notin Placeholders}

\* sort_values('number', ascending=False): the rows kept, in every order of
\* descending number (the sort is not stable)
SortedDescending(frame) ==
    {order \in [1..Cardinality(Kept(frame)) -> Kept(frame)] :
        /\ \A k, l \in DOMAIN order : k # l => order[k] # order[l]
        /\ \A k, l \in DOMAIN order :
              k < l => frame[order[k]].number >= frame[order[l]].number}

\* head(10)
HeadOf(seq, n) == SubSeq(seq, 1, IF Len(seq) < n THEN Len(seq) ELSE n)

\* dtm = pd.DataFrame(data=counts.todense(), index=tweets.index,
\* columns=tokens)
InitDtm ==
    /\ \E n \in 1..MaxTweets :
          dtm \in [1..n -> [1..Len(DtmTokens) -> 0..MaxCount]]
    /\ counts = <<>>
    /\ shown = <<>>
    /\ cell = "dtm"
    /\ SimilarIdle
    /\ FeatureIdle
    /\ PlotIdle
    /\ PreprocessIdle

\* counts['token'] = dtm.idxmax(axis=1)
TokenColumn ==
    /\ cell = "dtm"
    /\ counts' = [t \in 1..Len(dtm) |-> [tweet |-> t - 1, token |-> RowIdxMax(dtm[t])]]
    /\ cell' = "token"
    /\ UNCHANGED <<similarities, idx1, idx2, dtm, shown, to_train, X, idx, n_added, idle>>

\* counts['number'] = dtm.max(axis=1)
NumberColumn ==
    /\ cell = "token"
    /\ counts' = [t \in 1..Len(dtm) |->
                    [tweet |-> counts[t].tweet, token |-> counts[t].token,
                     number |-> RowMax(dtm[t])]]
    /\ cell' = "number"
    /\ UNCHANGED <<similarities, idx1, idx2, dtm, shown, to_train, X, idx, n_added, idle>>

\* counts[...].sort_values('number', ascending=False).head(10)
ShowTop ==
    /\ cell = "number"
    /\ \E order \in SortedDescending(counts) :
          shown' = HeadOf([k \in DOMAIN order |-> counts[order[k]]], HeadRows)
    /\ cell' = "head"
    /\ UNCHANGED <<similarities, idx1, idx2, dtm, counts, to_train, X, idx, n_added, idle>>

NextDtm == TokenColumn \/ NumberColumn \/ ShowTop

SpecDtm == InitDtm /\ [][NextDtm]_vars

\* the columns of the tokens that are no placeholders
TokenColumns == {j \in 1..Len(DtmTokens) : DtmTokens[j] \notin Placeholders}

\* the greatest count any token that is no placeholder has in any tweet
MostInAnyTweet ==
    Greatest({dtm[t][j] : t \in 1..Len(dtm), j \in TokenColumns})

\* ---------------------------------------------------------------------------
\* C23: the first row the last cell displays is a tweet, a token and a
\* count, the count being the greatest, over all tweets and all tokens other
\* than the placeholders digit, hashtag and user, of the token's count in
\* the tweet.  (Stated for a DTM in which some such token occurs.)
C23_FirstRowIsTheMost ==
    (cell = "head" /\ MostInAnyTweet > 0) =>
        /\ shown # <<>>
        /\ shown[1].token \notin Placeholders
        /\ shown[1].number = MostInAnyTweet
        /\ \E j \in TokenColumns :
              /\ DtmTokens[j] = shown[1].token
              /\ dtm[shown[1].tweet + 1][j] = shown[1].number

(***************************************************************************)
(* The feature matrix of the embeddings: the loop of featurizer, and of    *)
(* the cell it was made from.  idx is numbered from 0, as in the code; row *)
(* idx of the matrix is X[idx + 1].                                        *)
(***************************************************************************)
MaxTrain == 2

MaxTokens == 3

VectorSize == 2

\* the tokens word2vec was trained on
Vocabulary == {"flight", "late"}

\* the tokens a document of to_train is made of: one is in no document
\* word2vec was trained on
TrainTokens == Vocabulary \cup {"thanks"}

\* model.wv.get_vector(token), for a token of the vocabulary
GetVector(token) ==
    IF token = "flight"
      THEN [d \in 1..VectorSize |-> 3 * d * (Unit \div 8)]
      ELSE [d \in 1..VectorSize |-> 3 * Unit - 2 * d * Unit]

\* the lists of at most n tokens
RECURSIVE TokensUpTo(_)
TokensUpTo(n) ==
    IF n = 0 THEN {<<>>}
    ELSE LET shorter == TokensUpTo(n - 1)
         IN  shorter \cup {Append(t, w) : t \in shorter, w \in TrainTokens}

\* np.zeros((len(to_train), vector_size))
Zeros(rows, columns) == [r \in 1..rows |-> [d \in 1..columns |-> 0]]

\* a slip: X[idx] = model.wv.get_vector(token), the vector put in place of
\* the sum
VectorPut(row, vector) == vector

\* X[idx] += model.wv.get_vector(token)
VectorAdded(row, vector) == [d \in 1..Len(row) |-> FAdd(row[d], vector[d])]

\* X[idx] /= n_tokens
Averaged(row, n_tokens) == [d \in 1..Len(row) |-> FDiv(row[d], n_tokens * Unit)]

\* X = np.zeros((len(to_train), vector_size)), before the loop over to_train
InitFeature ==
    /\ \E n \in 1..MaxTrain : to_train \in [1..n -> TokensUpTo(MaxTokens)]
    /\ X = Zeros(Len(to_train), VectorSize)
    /\ idx = 0
    /\ n_added = 0
    /\ cell = "loop"
    /\ SimilarIdle
    /\ DtmIdle
    /\ PlotIdle
    /\ PreprocessIdle

\* X[idx] += model.wv.get_vector(token), the token in the vocabulary
AddVector ==
    /\ cell = "loop"
    /\ idx < Len(to_train)
    /\ n_added < Len(to_train[idx + 1])
    /\ to_train[idx + 1][n_added + 1] \in Vocabulary
    /\ X' = [X EXCEPT ![idx + 1] =
                VectorAdded(X[idx + 1], GetVector(to_train[idx + 1][n_added + 1]))]
    /\ n_added' = n_added + 1
    /\ UNCHANGED <<cell, similarities, idx1, idx2, dtm, counts, shown, to_train, idx, idle>>

\* model.wv.get_vector(token) raises KeyError for a token word2vec has not
\* seen
AddVectorKeyError ==
    /\ cell = "loop"
    /\ idx < Len(to_train)
    /\ n_added < Len(to_train[idx + 1])
    /\ to_train[idx + 1][n_added + 1] \notin Vocabulary
    /\ cell' = "KeyError"
    /\ UNCHANGED <<similarities, idx1, idx2, dtm, counts, shown, to_train, X, idx,
                   n_added, idle>>

\* X[idx] /= n_tokens, and on to the next document
TakeAverage ==
    /\ cell = "loop"
    /\ idx < Len(to_train)
    /\ n_added = Len(to_train[idx + 1])
    /\ X' = [X EXCEPT ![idx + 1] = Averaged(X[idx + 1], Len(to_train[idx + 1]))]
    /\ idx' = idx + 1
    /\ n_added' = 0
    /\ UNCHANGED <<cell, similarities, idx1, idx2, dtm, counts, shown, to_train, idle>>

\* return X
ReturnX ==
    /\ cell = "loop"
    /\ idx = Len(to_train)
    /\ cell' = "return"
    /\ UNCHANGED <<similarities, idx1, idx2, dtm, counts, shown, to_train, X, idx,
                   n_added, idle>>

NextFeature == AddVector \/ AddVectorKeyError \/ TakeAverage \/ ReturnX

SpecFeature == InitFeature /\ [][NextFeature]_vars

\* the sum of the word vectors of the first n tokens of a document, added
\* one after the other
RECURSIVE VectorSum(_, _)
VectorSum(doc, n) ==
    IF n = 0 THEN [d \in 1..VectorSize |-> 0]
    ELSE LET before == VectorSum(doc, n - 1)
         IN  [d \in 1..VectorSize |-> FAdd(before[d], GetVector(doc[n])[d])]

\* the average of the word vectors of the tokens of a document
Average(doc) ==
    [d \in 1..VectorSize |-> FDiv(VectorSum(doc, Len(doc))[d], Len(doc) * Unit)]

\* the rows of the documents the loop is through with
Finished == 1..idx

\* ---------------------------------------------------------------------------
\* C24: row idx of the feature matrix is the average of the word vectors of
\* the tokens of document idx, for every document of to_train, and the
\* matrix has a row for each document, in the order of to_train: the loop
\* gets through every document, and the row of each is a vector of numbers,
\* the sum of its word vectors divided by the number of its tokens.
C24_RowsAreAverages ==
    /\ cell \in {"loop", "return"}
    /\ Len(X) = Len(to_train)
    /\ \A r \in Finished :
          /\ \A d \in 1..VectorSize : IsFinite(X[r][d])
          /\ Len(to_train[r]) > 0
          /\ X[r] = Average(to_train[r])

\* C24, amended: a document without tokens has no average, and its row is
\* 0 / 0, nan; a token word2vec was not trained on has no word vector, and
\* the loop ends in a KeyError at it.  The matrix has a row for each
\* document of to_train, in their order; until a token outside the
\* vocabulary is met, the row of every document the loop is through with is
\* the sum of the word vectors of its tokens divided by their number when
\* the document has a token, and nan in every column when it has none.
C24_RowsAreAveragesOfKnownTokens ==
    /\ Len(X) = Len(to_train)
    /\ \A r \in Finished :
          /\ \A k \in 1..Len(to_train[r]) : to_train[r][k] \in Vocabulary
          /\ Len(to_train[r]) > 0 =>
                /\ X[r] = Average(to_train[r])
                /\ \A d \in 1..VectorSize : IsFinite(X[r][d])
          /\ Len(to_train[r]) = 0 => \A d \in 1..VectorSize : IsNaN(X[r][d])
    /\ cell = "KeyError" =>
          \E k \in 1..Len(to_train[idx + 1]) : to_train[idx + 1][k] \notin Vocabulary
    /\ cell = "return" => idx = Len(to_train)

\* the matrix has been returned for two documents, the first of three
\* tokens of which two are the same, the second of one token
C24_Witness ==
    /\ cell = "return"
    /\ Len(to_train) = 2
    /\ Len(to_train[1]) = 3
    /\ to_train[1][1] = to_train[1][3]
    /\ to_train[1][1] # to_train[1][2]
    /\ Len(to_train[2]) = 1
    /\ X[2] = GetVector(to_train[2][1])
    /\ X[1] # X[2]

====
